---- MODULE Spec2Model ----
(***************************************************************************)
(* LiveLogs (public/app/features/explore/LiveLogs.tsx): the live log       *)
(* viewer of Explore.  The component is a React PureComponent; the model   *)
(* follows one instance through construction, mount, the update passes     *)
(* its parent drives, the scroll events of its container and the clicks    *)
(* on its pause/resume button.                                             *)
(*                                                                         *)
(* A React pass is synchronous on the UI thread, so one pass is one        *)
(* action: getDerivedStateFromProps, render (with the ref callback of the  *)
(* end marker) and componentDidUpdate.                                     *)
(***************************************************************************)
EXTENDS Integers, Sequences, FiniteSets

(* ------------------------------------------------------------------ *)
(* Values                                                              *)
(* ------------------------------------------------------------------ *)

\* null / undefined of an optional number or of a derived-state result.
Null == <<>>

\* props.logsResult is optional: the absent LogsModel.
Undefined == [undefined |-> TRUE]

\* A LogRowModel, reduced to the one field the component computes with.
LogRow(t) == [timeEpochMs |-> t]

\* A LogsModel, reduced to its rows.
LogsModel(rows) == [rows |-> rows]

\* rowsToRender slices to the last 100 rows while streaming.
RenderLimit == 100

\* onScroll pauses at 5 pixels or more from the bottom.
PauseThreshold == 5

(* ------------------------------------------------------------------ *)
(* Bounds of the model                                                 *)
(* ------------------------------------------------------------------ *)

\* Longest LogsModel enumerated row by row.
MaxRows == 2

\* Height of the scroll container's viewport, in pixels.
ClientHeight == 500

\* Calls of onPause counted while the parent has not changed isPaused.
MaxRequests == 2

\* Timestamps of the rows enumerated row by row.
Timestamps == {0, 100}

RECURSIVE RowSeqs(_)
RowSeqs(n) ==
  IF n = 0 THEN {<<>>}
  ELSE LET shorter == RowSeqs(n - 1)
       IN  shorter \cup {Append(s, LogRow(t)) : s \in {q \in shorter : Len(q) = n - 1}, t \in Timestamps}

\* A long result: n rows with timestamps 1, 2, ..., n.
Ramp(n) == [i \in 1..n |-> LogRow(i)]

ShortResults == {LogsModel(s) : s \in RowSeqs(MaxRows)}

LongResults == {LogsModel(Ramp(RenderLimit)), LogsModel(Ramp(RenderLimit + 1))}

\* The successive results of the stream U1, U2, U3 with last rows at 100, 200, 300.
StreamResults ==
  {LogsModel(<<LogRow(100), LogRow(200)>>),
   LogsModel(<<LogRow(100), LogRow(200), LogRow(300)>>)}

\* Every value of props.logsResult the parent may deliver.
AllResults == {Undefined} \cup ShortResults \cup LongResults \cup StreamResults

\* The results delivered when the scroll manager is explored.
FewResults == {Undefined, LogsModel(<<LogRow(100)>>), LogsModel(Ramp(RenderLimit + 1))}

\* scrollHeight of the container after a paint.
AllHeights == {ClientHeight, 1000, 1200}
FewHeights == {1000}

\* Distances from the bottom the user scrolls to.
AllDistances == {0, PauseThreshold - 1, PauseThreshold, 50}
FewDistances == {0, 50}

(* ------------------------------------------------------------------ *)
(* State                                                               *)
(* ------------------------------------------------------------------ *)

VARIABLES
  phase,            \* "constructed" before the first render, "mounted" after
  props,            \* this.props: logsResult, isPaused
  state,            \* this.state: logsResultToRender, lastTimestamp
  lastScrollPos,    \* this.lastScrollPos: Null or <<distance>>
  liveEndDiv,       \* this.liveEndDiv is an element (TRUE) or null (FALSE)
  onScrollBound,    \* the container's onScroll prop is this.onScroll
  renderedRows,     \* rows painted by the last render
  rowClasses,       \* the freshness class painted on each of those rows
  container,        \* scrollContainerRef.current: scrollTop, scrollHeight, clientHeight
  fx,               \* what the last step did to the outside
  lastAccepted,     \* history: logsResult of the last pass that ran unpaused
  scrolledUp,       \* history: a qualifying scroll since the last entry into pause
  scrolledTo,       \* history: the distance of the most recent such scroll, or Null
  pauseRequests     \* history: calls of onPause since isPaused last changed (saturating)

vars == <<phase, props, state, lastScrollPos, liveEndDiv, onScrollBound,
          renderedRows, rowClasses, container, fx, lastAccepted, scrolledUp,
          scrolledTo, pauseRequests>>

\* Effects of one step: calls to scrollIntoView, the argument of scrollTo,
\* the callback invoked, and isPaused as it was before the step.
Fx(op, intoView, scrollTo, callback, prevPaused) ==
  [op |-> op, scrollIntoView |-> intoView, scrollTo |-> scrollTo,
   callback |-> callback, prevPaused |-> prevPaused]

(* ------------------------------------------------------------------ *)
(* Pure parts of the component                                         *)
(* ------------------------------------------------------------------ *)

Min(a, b) == IF a < b THEN a ELSE b
Max(a, b) == IF a > b THEN a ELSE b

\* lodash last: the last element, or Null (undefined) of an empty array.
last(rows) == IF Len(rows) = 0 THEN Null ELSE <<rows[Len(rows)]>>

\* slice as it would be if it kept the head of the array: rows.slice(0, 100).
slice_KeepingHead(rows, begin) ==
  LET n == Len(rows)
      k == IF begin < 0 THEN -begin ELSE begin
  IN  SubSeq(rows, 1, IF k < n THEN k ELSE n)

\* Array.prototype.slice(begin) with one argument: a negative begin counts
\* from the end, and is clamped to the array.
slice(rows, begin) ==
  LET n == Len(rows)
      k == IF begin < 0 THEN Max(n + begin, 0) ELSE Min(begin, n)
  IN  SubSeq(rows, k + 1, n)

\* JavaScript truthiness of a number | null.
Truthy(pos) == pos # Null /\ pos[1] # 0

\* The derivation without its gate on isPaused.
getDerivedStateFromProps_IgnoringPause(nextProps, st) ==
  [logsResultToRender |-> nextProps.logsResult,
   lastTimestamp |->
     IF st.logsResultToRender # Undefined /\ last(st.logsResultToRender.rows) # Null
     THEN last(st.logsResultToRender.rows)[1].timeEpochMs
     ELSE 0]

\* The derivation advancing the threshold but not the snapshot.
getDerivedStateFromProps_KeepingSnapshot(nextProps, st) ==
  IF ~nextProps.isPaused
  THEN [logsResultToRender |-> st.logsResultToRender,
        lastTimestamp |->
          IF st.logsResultToRender # Undefined /\ last(st.logsResultToRender.rows) # Null
          THEN last(st.logsResultToRender.rows)[1].timeEpochMs
          ELSE 0]
  ELSE Null

\* The derivation taking the threshold from the arriving result.
getDerivedStateFromProps_ThresholdFromNew(nextProps, st) ==
  IF ~nextProps.isPaused
  THEN [logsResultToRender |-> nextProps.logsResult,
        lastTimestamp |->
          IF nextProps.logsResult # Undefined /\ last(nextProps.logsResult.rows) # Null
          THEN last(nextProps.logsResult.rows)[1].timeEpochMs
          ELSE 0]
  ELSE Null

\* The derivation keeping the old threshold when the previous snapshot has
\* no last row.
getDerivedStateFromProps_KeepingThreshold(nextProps, st) ==
  IF ~nextProps.isPaused
  THEN [logsResultToRender |-> nextProps.logsResult,
        lastTimestamp |->
          IF st.logsResultToRender # Undefined /\ last(st.logsResultToRender.rows) # Null
          THEN last(st.logsResultToRender.rows)[1].timeEpochMs
          ELSE st.lastTimestamp]
  ELSE Null

\* The derivation run only when a result other than the snapshot arrives.
getDerivedStateFromProps_OnlyOnNewResult(nextProps, st) ==
  IF ~nextProps.isPaused /\ nextProps.logsResult # st.logsResultToRender
  THEN [logsResultToRender |-> nextProps.logsResult,
        lastTimestamp |->
          IF st.logsResultToRender # Undefined /\ last(st.logsResultToRender.rows) # Null
          THEN last(st.logsResultToRender.rows)[1].timeEpochMs
          ELSE 0]
  ELSE Null

getDerivedStateFromProps(nextProps, st) ==
  IF ~nextProps.isPaused
  THEN [logsResultToRender |-> nextProps.logsResult,
        lastTimestamp |->
          IF st.logsResultToRender # Undefined /\ last(st.logsResultToRender.rows) # Null
          THEN last(st.logsResultToRender.rows)[1].timeEpochMs
          ELSE 0]
  ELSE Null

\* React merges the partial state; null leaves the state as it is.
ApplyDerivedState(nextProps, st) ==
  LET partial == getDerivedStateFromProps(nextProps, st)
  IN  IF partial = Null THEN st ELSE partial

\* rowsToRender slicing whether paused or not.
rowsToRender_AlwaysSliced(p, st) ==
  LET rows == IF st.logsResultToRender # Undefined THEN st.logsResultToRender.rows ELSE <<>>
  IN  slice(rows, -RenderLimit)

rowsToRender(p, st) ==
  LET rows == IF st.logsResultToRender # Undefined THEN st.logsResultToRender.rows ELSE <<>>
  IN  IF ~p.isPaused THEN slice(rows, -RenderLimit) ELSE rows

\* isFresh with a comparison that is not strict.
isFresh_NotStrict(row, st) == row.timeEpochMs >= st.lastTimestamp

isFresh(row, st) == row.timeEpochMs > st.lastTimestamp

\* render: the class of a row, this.isFresh(row) ? logsRowFresh : logsRowOld.
RowClass(row, st) == IF isFresh(row, st) THEN "logsRowFresh" ELSE "logsRowOld"

\* render: the classes of the rows it maps over.
RowClasses(rows, st) == [i \in 1..Len(rows) |-> RowClass(rows[i], st)]

\* onScroll: scrollHeight - (scrollTop + clientHeight).
DistanceFromBottom(c) == c.scrollHeight - (c.scrollTop + c.clientHeight)

\* The condition with a strict comparison.
ShouldPause_Strict(distanceFromBottom, isPaused) ==
  distanceFromBottom > PauseThreshold /\ ~isPaused

\* onScroll's condition for pausing.
ShouldPause(distanceFromBottom, isPaused) ==
  distanceFromBottom >= PauseThreshold /\ ~isPaused

\* The position computed without the viewport's height.
RestoredScrollTop_WithoutClientHeight(pos, clientHeight, scrollHeight) ==
  scrollHeight - pos

\* componentDidUpdate: the position that keeps the saved offset from the bottom.
RestoredScrollTop(pos, clientHeight, scrollHeight) ==
  scrollHeight - (pos + clientHeight)

\* The browser keeps scrollTop within [0, scrollHeight - clientHeight].
Clamp(top, scrollHeight, clientHeight) ==
  Max(0, Min(top, scrollHeight - clientHeight))

\* Element.scrollIntoView(false) on the end marker: its bottom at the bottom
\* of the viewport, i.e. the container scrolled to its end.
EndScrollTop(scrollHeight, clientHeight) == Max(0, scrollHeight - clientHeight)

\* PureComponent: a pass is skipped when props and state are shallowly equal.
ShallowEqual(a, b) == a = b

(* ------------------------------------------------------------------ *)
(* Construction                                                        *)
(* ------------------------------------------------------------------ *)

\* The constructor taking the threshold from the first result.
constructor_ThresholdFromResult(p) ==
  [logsResultToRender |-> p.logsResult,
   lastTimestamp |->
     IF p.logsResult # Undefined /\ last(p.logsResult.rows) # Null
     THEN last(p.logsResult.rows)[1].timeEpochMs
     ELSE 0]

constructor(p) == [logsResultToRender |-> p.logsResult, lastTimestamp |-> 0]

InitOver(Results) ==
  /\ phase = "constructed"
  /\ props \in [logsResult : Results, isPaused : BOOLEAN]
  /\ state = constructor(props)
  /\ lastScrollPos = Null
  /\ liveEndDiv = FALSE
  /\ onScrollBound = FALSE
  /\ renderedRows = <<>>
  /\ rowClasses = <<>>
  /\ container = [scrollTop |-> 0, scrollHeight |-> ClientHeight, clientHeight |-> ClientHeight]
  /\ fx = Fx("constructor", 0, Null, "none", props.isPaused)
  /\ lastAccepted = props.logsResult
  /\ scrolledUp = FALSE
  /\ scrolledTo = Null
  /\ pauseRequests = 0

(* ------------------------------------------------------------------ *)
(* Handlers                                                            *)
(* ------------------------------------------------------------------ *)

\* The listener bound whether paused or not.
OnScrollProp_AlwaysBound(isPaused) == TRUE

\* render: onScroll={isPaused ? undefined : this.onScroll}; TRUE when the
\* handler is bound.
OnScrollProp(isPaused) == ~isPaused

\* The ref callback scrolling to the end whether paused or not.
LiveEndRef_Always(isPaused, top, scrollHeight, clientHeight) ==
  [calls |-> 1, scrollTop |-> EndScrollTop(scrollHeight, clientHeight)]

\* The ref callback with its test of isPaused inverted.
LiveEndRef_Inverted(isPaused, top, scrollHeight, clientHeight) ==
  IF isPaused
  THEN [calls |-> 1, scrollTop |-> EndScrollTop(scrollHeight, clientHeight)]
  ELSE [calls |-> 0, scrollTop |-> Clamp(top, scrollHeight, clientHeight)]

\* The ref callback of the end marker, called with the element after each
\* render: it stores the element and scrolls to it unless paused.
\* Returns the number of scrollIntoView calls and the resulting scrollTop.
LiveEndRef(isPaused, top, scrollHeight, clientHeight) ==
  IF ~isPaused
  THEN [calls |-> 1, scrollTop |-> EndScrollTop(scrollHeight, clientHeight)]
  ELSE [calls |-> 0, scrollTop |-> Clamp(top, scrollHeight, clientHeight)]

\* componentDidUpdate applying the saved offset without clearing it.
componentDidUpdate_KeepingOffset(prevProps, curProps, pos, endDiv, c) ==
  IF ~prevProps.isPaused /\ curProps.isPaused
  THEN IF Truthy(pos)
       THEN LET scrollTop == RestoredScrollTop(pos[1], c.clientHeight, c.scrollHeight)
            IN  [lastScrollPos |-> pos, scrollTo |-> <<scrollTop>>, calls |-> 0,
                 scrollTop |-> Clamp(scrollTop, c.scrollHeight, c.clientHeight)]
       ELSE IF endDiv
            THEN [lastScrollPos |-> pos, scrollTo |-> Null, calls |-> 1,
                  scrollTop |-> EndScrollTop(c.scrollHeight, c.clientHeight)]
            ELSE [lastScrollPos |-> pos, scrollTo |-> Null, calls |-> 0,
                  scrollTop |-> c.scrollTop]
  ELSE [lastScrollPos |-> pos, scrollTo |-> Null, calls |-> 0, scrollTop |-> c.scrollTop]

\* componentDidUpdate(prevProps), run after the ref callbacks of the commit.
\* c is the container as painted; the result is the new lastScrollPos, the
\* calls made and the scrollTop they leave.
componentDidUpdate(prevProps, curProps, pos, endDiv, c) ==
  IF ~prevProps.isPaused /\ curProps.isPaused
  THEN IF Truthy(pos)
       THEN LET scrollTop == RestoredScrollTop(pos[1], c.clientHeight, c.scrollHeight)
            IN  [lastScrollPos |-> Null, scrollTo |-> <<scrollTop>>, calls |-> 0,
                 scrollTop |-> Clamp(scrollTop, c.scrollHeight, c.clientHeight)]
       ELSE IF endDiv
            THEN [lastScrollPos |-> pos, scrollTo |-> Null, calls |-> 1,
                  scrollTop |-> EndScrollTop(c.scrollHeight, c.clientHeight)]
            ELSE [lastScrollPos |-> pos, scrollTo |-> Null, calls |-> 0,
                  scrollTop |-> c.scrollTop]
  ELSE [lastScrollPos |-> pos, scrollTo |-> Null, calls |-> 0, scrollTop |-> c.scrollTop]

\* onScroll leaving an offset it already holds as it is.
onScroll_KeepingFirst(p, pos, c) ==
  LET distanceFromBottom == DistanceFromBottom(c)
  IN  IF ShouldPause(distanceFromBottom, p.isPaused)
      THEN [callback |-> "onPause",
            lastScrollPos |-> IF pos = Null THEN <<distanceFromBottom>> ELSE pos]
      ELSE [callback |-> "none", lastScrollPos |-> pos]

\* onScroll(event): the callback to invoke and the new lastScrollPos.
onScroll(p, pos, c) ==
  LET distanceFromBottom == DistanceFromBottom(c)
  IN  IF ShouldPause(distanceFromBottom, p.isPaused)
      THEN [callback |-> "onPause", lastScrollPos |-> <<distanceFromBottom>>]
      ELSE [callback |-> "none", lastScrollPos |-> pos]

\* The onClick with its two callbacks swapped.
ToggleHandler_Swapped(isPaused) == IF isPaused THEN "onPause" ELSE "onResume"

\* The onClick of the pause/resume button.
ToggleHandler(isPaused) == IF isPaused THEN "onResume" ELSE "onPause"

\* The count of onPause calls after a handler invoked the given callback.
Requested(n, callback) ==
  IF callback = "onPause" THEN Min(n + 1, MaxRequests) ELSE n

(* ------------------------------------------------------------------ *)
(* Actions                                                             *)
(* ------------------------------------------------------------------ *)

\* First pass: getDerivedStateFromProps, render, the ref callback.
Mount(h) ==
  /\ phase = "constructed"
  /\ LET st  == ApplyDerivedState(props, state)
         ref == LiveEndRef(props.isPaused, 0, h, container.clientHeight)
     IN  /\ state' = st
         /\ renderedRows' = rowsToRender(props, st)
         /\ rowClasses' = RowClasses(rowsToRender(props, st), st)
         /\ onScrollBound' = OnScrollProp(props.isPaused)
         /\ liveEndDiv' = TRUE
         /\ container' = [container EXCEPT !.scrollHeight = h, !.scrollTop = ref.scrollTop]
         /\ fx' = Fx("mount", ref.calls, Null, "none", props.isPaused)
         /\ lastAccepted' = IF ~props.isPaused THEN props.logsResult ELSE lastAccepted
  /\ phase' = "mounted"
  /\ UNCHANGED <<props, lastScrollPos, scrolledUp, scrolledTo, pauseRequests>>

\* An update pass driven by the parent: new logsResult and isPaused, and
\* possibly another prop changed (timeZone, theme, a callback).
Update(logsResult, isPaused, otherChanged, h) ==
  /\ phase = "mounted"
  /\ LET nextProps == [logsResult |-> logsResult, isPaused |-> isPaused]
         st        == ApplyDerivedState(nextProps, state)
         bailout   == ~otherChanged /\ ShallowEqual(nextProps, props) /\ ShallowEqual(st, state)
         ref       == LiveEndRef(isPaused, container.scrollTop, h, container.clientHeight)
         painted   == [container EXCEPT !.scrollHeight = h, !.scrollTop = ref.scrollTop]
         did       == componentDidUpdate(props, nextProps, lastScrollPos, TRUE, painted)
     IN  /\ props' = nextProps
         /\ state' = st
         /\ lastAccepted' = IF ~isPaused THEN logsResult ELSE lastAccepted
         /\ pauseRequests' = IF isPaused # props.isPaused THEN 0 ELSE pauseRequests
         /\ IF bailout
            THEN /\ fx' = Fx("bailout", 0, Null, "none", props.isPaused)
                 /\ UNCHANGED <<lastScrollPos, liveEndDiv, onScrollBound, renderedRows,
                                rowClasses, container, scrolledUp, scrolledTo>>
            ELSE /\ renderedRows' = rowsToRender(nextProps, st)
                 /\ rowClasses' = RowClasses(rowsToRender(nextProps, st), st)
                 /\ onScrollBound' = OnScrollProp(isPaused)
                 /\ liveEndDiv' = TRUE
                 /\ lastScrollPos' = did.lastScrollPos
                 /\ container' = [painted EXCEPT !.scrollTop = did.scrollTop]
                 /\ fx' = Fx("update", ref.calls + did.calls, did.scrollTo, "none", props.isPaused)
                 /\ scrolledUp' = (scrolledUp /\ ~(~props.isPaused /\ isPaused))
                 /\ scrolledTo' = IF ~props.isPaused /\ isPaused THEN Null ELSE scrolledTo
  /\ UNCHANGED phase

\* The user scrolls the container to d pixels from its bottom; the browser
\* dispatches the scroll event to the bound handler, if any.
Scroll(d) ==
  /\ phase = "mounted"
  /\ LET top      == container.scrollHeight - (d + container.clientHeight)
         scrolled == [container EXCEPT !.scrollTop = top]
         handled  == IF onScrollBound
                     THEN onScroll(props, lastScrollPos, scrolled)
                     ELSE [callback |-> "none", lastScrollPos |-> lastScrollPos]
     IN  /\ top >= 0
         /\ top # container.scrollTop
         /\ container' = scrolled
         /\ lastScrollPos' = handled.lastScrollPos
         /\ fx' = Fx("scroll", 0, Null, handled.callback, props.isPaused)
         /\ scrolledUp' = (scrolledUp \/ handled.callback = "onPause")
         /\ scrolledTo' = IF handled.callback = "onPause"
                          THEN <<DistanceFromBottom(scrolled)>>
                          ELSE scrolledTo
         /\ pauseRequests' = Requested(pauseRequests, handled.callback)
  /\ UNCHANGED <<phase, props, state, liveEndDiv, onScrollBound, renderedRows, rowClasses,
                 lastAccepted>>

\* A click on the pause/resume button.
ClickToggle ==
  /\ phase = "mounted"
  /\ fx' = Fx("click", 0, Null, ToggleHandler(props.isPaused), props.isPaused)
  /\ pauseRequests' = Requested(pauseRequests, ToggleHandler(props.isPaused))
  /\ UNCHANGED <<phase, props, state, lastScrollPos, liveEndDiv, onScrollBound,
                 renderedRows, rowClasses, container, lastAccepted, scrolledUp, scrolledTo>>

NextOver(Results, Heights, Distances) ==
  \/ \E h \in Heights : Mount(h)
  \/ \E logsResult \in Results, isPaused \in BOOLEAN, otherChanged \in BOOLEAN, h \in Heights :
       Update(logsResult, isPaused, otherChanged, h)
  \/ \E d \in Distances : Scroll(d)
  \/ ClickToggle

\* The view-state controller and the row renderer over every result.
Init == InitOver(AllResults)
Next == NextOver(AllResults, FewHeights, FewDistances)
Spec == Init /\ [][Next]_vars

\* The scroll manager over every height and distance.
InitScroll == InitOver(FewResults)
NextScroll == NextOver(FewResults, AllHeights, AllDistances)
SpecScroll == InitScroll /\ [][NextScroll]_vars

\* The rows of a result are in non-decreasing timestamp order.
Sorted(logsResult) ==
  logsResult = Undefined \/
    \A i \in 1..(Len(logsResult.rows) - 1) :
      logsResult.rows[i].timeEpochMs <= logsResult.rows[i + 1].timeEpochMs

\* The data source sends the full data, not deltas: a result continues the
\* one delivered before it when it starts with all of that one's rows.
Continues(before, after) ==
  LET old == IF before = Undefined THEN <<>> ELSE before.rows
      new == IF after = Undefined THEN <<>> ELSE after.rows
  IN  Len(old) <= Len(new) /\ SubSeq(new, 1, Len(old)) = old

\* The results an ordered stream may deliver.
SortedResults == {r \in AllResults : Sorted(r)}

\* The component fed by an ordered stream of growing results.
InitStream == InitOver(SortedResults)
NextStream ==
  \/ \E h \in FewHeights : Mount(h)
  \/ \E logsResult \in SortedResults, isPaused \in BOOLEAN, otherChanged \in BOOLEAN,
        h \in FewHeights :
       /\ Continues(props.logsResult, logsResult)
       /\ Update(logsResult, isPaused, otherChanged, h)
  \/ \E d \in FewDistances : Scroll(d)
  \/ ClickToggle
SpecStream == InitStream /\ [][NextStream]_vars

(* ------------------------------------------------------------------ *)
(* Properties of the view-state controller and the row renderer        *)
(* ------------------------------------------------------------------ *)

\* Rows of an optional LogsModel: none when it is absent.
RowsOf(logsResult) == IF logsResult = Undefined THEN <<>> ELSE logsResult.rows

\* Timestamp of the last row of an optional LogsModel, 0 without rows.
LastRowTime(logsResult) ==
  LET rows == RowsOf(logsResult)
  IN  IF Len(rows) = 0 THEN 0 ELSE rows[Len(rows)].timeEpochMs

\* A step that is an update pass of a mounted component.
UpdatePass == phase = "mounted" /\ fx'.op \in {"update", "bailout"}

\* An update pass on which isPaused goes from false to true.
EnteringPause == UpdatePass /\ ~props.isPaused /\ props'.isPaused

\* An update pass on which isPaused goes from true to false.
LeavingPause == UpdatePass /\ props.isPaused /\ ~props'.isPaused

\* C1: Freeze invariant. Across any step of a mounted component on which
\* isPaused is true before and after, whatever logsResult is delivered, the
\* rendered snapshot, the freshness threshold and the painted rows stay
\* exactly as they were.
C1_FreezeWhilePaused ==
  [][(phase = "mounted" /\ props.isPaused /\ props'.isPaused)
       => /\ state'.logsResultToRender = state.logsResultToRender
          /\ state'.lastTimestamp = state.lastTimestamp
          /\ renderedRows' = renderedRows]_vars

\* C1 witness: a paused update pass delivered a result other than the
\* frozen, non-empty snapshot.
C1_Witness ==
  /\ phase = "mounted" /\ props.isPaused /\ fx.prevPaused /\ fx.op = "update"
  /\ props.logsResult # state.logsResultToRender
  /\ Len(renderedRows) > 0

\* C2: While unpaused the rendered snapshot is the latest logsResult
\* supplied (so the first render after a resume shows everything delivered
\* during the pause); while paused it is the last result accepted by an
\* unpaused pass, or the initial one when mounted paused.
C2_SnapshotTracksLatest ==
  phase = "mounted" =>
    /\ ~props.isPaused => state.logsResultToRender = props.logsResult
    /\ props.isPaused => state.logsResultToRender = lastAccepted

\* C2 witness: the first render after a resume shows the rows at 200 and
\* 300 that arrived while the snapshot ending at 100 was frozen.
C2_Witness ==
  /\ phase = "mounted" /\ ~props.isPaused /\ fx.prevPaused /\ fx.op = "update"
  /\ props.logsResult = LogsModel(<<LogRow(100), LogRow(200), LogRow(300)>>)
  /\ state.logsResultToRender = props.logsResult
  /\ state.lastTimestamp = 100

\* C3: After every unpaused update pass the freshness threshold is the
\* timestamp of the last row of the snapshot displayed just before the
\* pass, not of the data that arrived, and 0 when that snapshot was empty
\* or absent.
C3_ThresholdFromPreviousSnapshot ==
  [][(UpdatePass /\ ~props'.isPaused)
       => state'.lastTimestamp = LastRowTime(state.logsResultToRender)]_vars

\* C3 witness: an unpaused pass took the result ending at 300 while the
\* one ending at 200 was displayed; the threshold is 200.
C3_Witness ==
  /\ phase = "mounted" /\ ~props.isPaused /\ ~fx.prevPaused /\ fx.op = "update"
  /\ LastRowTime(state.logsResultToRender) = 300
  /\ state.lastTimestamp = 200

\* C4: Bounded live rendering. In every unpaused render the painted rows
\* are the last min(100, n) rows of the snapshot's n rows, in their order.
C4_BoundedLiveRendering ==
  (phase = "mounted" /\ ~props.isPaused) =>
    LET rows == RowsOf(state.logsResultToRender)
        n    == Len(rows)
        m    == IF n < 100 THEN n ELSE 100
    IN  /\ Len(renderedRows) = m
        /\ \A i \in 1..m : renderedRows[i] = rows[n - m + i]

\* C4 witness: an unpaused render of a 101-row snapshot paints 100 rows,
\* the oldest one dropped.
C4_Witness ==
  /\ phase = "mounted" /\ ~props.isPaused
  /\ Len(RowsOf(state.logsResultToRender)) = 101
  /\ Len(renderedRows) = 100
  /\ renderedRows[1] = RowsOf(state.logsResultToRender)[2]

\* C5: Full rendering while paused. In every paused render the painted
\* rows are the whole snapshot, untruncated.
C5_FullRenderingWhilePaused ==
  (phase = "mounted" /\ props.isPaused) =>
    renderedRows = RowsOf(state.logsResultToRender)

\* C5 witness: the pass that pauses paints all 101 rows of a snapshot of
\* which the unpaused render before it painted 100.
C5_Witness ==
  /\ phase = "mounted" /\ props.isPaused /\ ~fx.prevPaused /\ fx.op = "update"
  /\ Len(renderedRows) = 101

(* ------------------------------------------------------------------ *)
(* Properties of the scroll manager                                    *)
(* ------------------------------------------------------------------ *)

\* A step that is a scroll event of a mounted component.
ScrollEvent == phase = "mounted" /\ fx'.op = "scroll"

\* C6: Implicit pause threshold. On a scroll event observed while isPaused
\* is false, onPause is invoked and the distance from the bottom is saved
\* as the pending offset exactly when that distance is 5 or more; at 4 or
\* less no callback is invoked and the saved offset is left as it was.
C6_ImplicitPauseThreshold ==
  [][(ScrollEvent /\ ~props.isPaused)
       => LET distanceFromBottom ==
                container'.scrollHeight - (container'.scrollTop + container'.clientHeight)
          IN  IF distanceFromBottom >= 5
              THEN fx'.callback = "onPause" /\ lastScrollPos' = <<distanceFromBottom>>
              ELSE fx'.callback = "none" /\ lastScrollPos' = lastScrollPos]_vars

\* C6 witness: a scroll event at exactly 5 pixels from the bottom, while
\* unpaused, invoked onPause and saved 5.
C6_Witness ==
  /\ phase = "mounted" /\ fx.op = "scroll" /\ ~props.isPaused
  /\ DistanceFromBottom(container) = 5
  /\ fx.callback = "onPause"
  /\ lastScrollPos = <<5>>

\* C7: Scroll-restore round trip. On the update pass where isPaused goes
\* from false to true with a pending offset d, scrollTo is called with
\* scrollHeight - (d + clientHeight) of the container as painted by that
\* pass, that becomes the scroll position when it is in range, no
\* scroll-to-end is made, and the pending offset is cleared.
C7_ScrollRestore ==
  [][(EnteringPause /\ lastScrollPos # Null)
       => LET scrollTop ==
                container'.scrollHeight - (lastScrollPos[1] + container'.clientHeight)
          IN  /\ fx'.scrollTo = <<scrollTop>>
              /\ scrollTop >= 0 => container'.scrollTop = scrollTop
              /\ fx'.scrollIntoView = 0
              /\ lastScrollPos' = Null]_vars

\* C7 witness: clientHeight 500, offset 50, content painted 1200 high at
\* the pause: the viewport is at 650 and no offset is held.
C7_Witness ==
  /\ phase = "mounted" /\ props.isPaused /\ ~fx.prevPaused /\ fx.op = "update"
  /\ container.clientHeight = 500 /\ container.scrollHeight = 1200
  /\ fx.scrollTo = <<650>>
  /\ container.scrollTop = 650
  /\ lastScrollPos = Null

\* C8: A pause not preceded by a qualifying manual scroll (none since the
\* mount or since the last entry into pause) finds no saved offset at the
\* false->true pass and scrolls to the bottom exactly once, and no step
\* taken while the view stays paused makes the component scroll again.
C8_PauseWithoutScroll ==
  [][/\ (EnteringPause /\ ~scrolledUp)
          => /\ lastScrollPos = Null
             /\ fx'.scrollIntoView = 1
             /\ fx'.scrollTo = Null
             /\ container'.scrollTop = container'.scrollHeight - container'.clientHeight
     /\ (phase = "mounted" /\ props.isPaused /\ props'.isPaused)
          => fx'.scrollIntoView = 0 /\ fx'.scrollTo = Null]_vars

\* C8 witness: a pass that paused without a manual scroll made one
\* scroll-to-end, on content taller than the viewport.
C8_Witness ==
  /\ phase = "mounted" /\ props.isPaused /\ ~fx.prevPaused /\ fx.op = "update"
  /\ fx.scrollIntoView = 1 /\ fx.scrollTo = Null
  /\ container.scrollHeight > container.clientHeight
  /\ container.scrollTop = container.scrollHeight - container.clientHeight

\* C9: The pending offset is set only by a qualifying scroll (to the
\* distance of that scroll, 5 or more), is applied only by a pass entering
\* pause, which clears it, and is never held once the view is paused.
C9_OffsetConsumedOnce ==
  [][/\ (lastScrollPos' # lastScrollPos /\ lastScrollPos' # Null)
          => /\ fx'.op = "scroll" /\ fx'.callback = "onPause"
             /\ lastScrollPos' = <<DistanceFromBottom(container')>>
             /\ lastScrollPos'[1] >= 5
     /\ fx'.scrollTo # Null
          => /\ EnteringPause
             /\ lastScrollPos # Null
             /\ lastScrollPos' = Null
     /\ (phase' = "mounted" /\ props'.isPaused) => lastScrollPos' = Null]_vars

\* C9 witness: paused, the saved offset was applied and none is held.
C9_Witness ==
  /\ phase = "mounted" /\ props.isPaused
  /\ fx.scrollTo # Null
  /\ lastScrollPos = Null

\* C10: Resume re-enables following. The pass on which isPaused goes from
\* true to false scrolls to the end (once, with no scrollTo) wherever the
\* user had scrolled to, binds the scroll listener and leaves no pending
\* offset; every later render while unpaused scrolls to the end too.
C10_ResumeFollows ==
  [][/\ LeavingPause
          => /\ fx'.op = "update"
             /\ fx'.scrollIntoView = 1 /\ fx'.scrollTo = Null
             /\ container'.scrollTop = container'.scrollHeight - container'.clientHeight
             /\ onScrollBound'
             /\ lastScrollPos' = Null
     /\ (phase = "mounted" /\ fx'.op = "update" /\ ~props'.isPaused)
          => /\ fx'.scrollIntoView = 1
             /\ container'.scrollTop = container'.scrollHeight - container'.clientHeight]_vars

\* C10 witness: the resume pass scrolled content taller than the viewport
\* to its end and bound the listener.
C10_Witness ==
  /\ phase = "mounted" /\ ~props.isPaused /\ fx.prevPaused /\ fx.op = "update"
  /\ fx.scrollIntoView = 1
  /\ container.scrollHeight > container.clientHeight
  /\ container.scrollTop = container.scrollHeight - container.clientHeight
  /\ onScrollBound /\ lastScrollPos = Null

\* A step that renders: the mount or an update pass that is not skipped.
RenderPass == fx'.op \in {"mount", "update"}

\* C11: While paused the scroll manager is inert. After every render with
\* isPaused true no scroll listener is bound, so a scroll event while
\* paused invokes no callback and leaves the pending offset alone; an
\* update pass on which isPaused was already true makes no scroll at all;
\* and every render with isPaused false makes exactly one scroll-to-end.
C11_InertWhilePaused ==
  [][/\ (phase' = "mounted" /\ props'.isPaused) => ~onScrollBound'
     /\ (ScrollEvent /\ props.isPaused)
          => fx'.callback = "none" /\ lastScrollPos' = lastScrollPos
     /\ (UpdatePass /\ props.isPaused /\ props'.isPaused)
          => fx'.scrollIntoView = 0 /\ fx'.scrollTo = Null
     /\ (RenderPass /\ ~props'.isPaused)
          => /\ fx'.scrollIntoView = 1
             /\ container'.scrollTop = container'.scrollHeight - container'.clientHeight]_vars

\* C11 witness: while paused the user scrolled 50 pixels away from the
\* bottom; no callback was invoked and no offset is held.
C11_Witness ==
  /\ phase = "mounted" /\ props.isPaused /\ fx.prevPaused /\ fx.op = "scroll"
  /\ DistanceFromBottom(container) = 50
  /\ fx.callback = "none" /\ lastScrollPos = Null /\ ~onScrollBound

\* A result without rows: absent, or present and empty.
NoRows(logsResult) == logsResult = Undefined \/ logsResult.rows = <<>>

\* C12: An absent or empty logsResult is an ordinary input. Rendered at the
\* first render (paused or not) or at any unpaused render it paints no
\* rows; whenever the snapshot has no rows nothing is painted; and the
\* threshold an unpaused pass computes from an absent or empty previous
\* snapshot is 0.
C12_EmptyResultIsValid ==
  [][/\ (phase' = "mounted" /\ NoRows(props'.logsResult)
           /\ (fx'.op = "mount" \/ ~props'.isPaused))
          => renderedRows' = <<>>
     /\ (phase' = "mounted" /\ NoRows(state'.logsResultToRender))
          => renderedRows' = <<>>
     /\ ((RenderPass \/ UpdatePass) /\ ~props'.isPaused /\ NoRows(state.logsResultToRender))
          => state'.lastTimestamp = 0]_vars

\* C12 witness: an unpaused update pass delivered an absent result over an
\* absent snapshot: nothing is painted, the threshold is 0.
C12_Witness ==
  /\ phase = "mounted" /\ ~props.isPaused /\ fx.op = "update"
  /\ props.logsResult = Undefined
  /\ state.logsResultToRender = Undefined
  /\ renderedRows = <<>>
  /\ state.lastTimestamp = 0

\* C13: Fed by an ordered stream (every result sorted by timestamp and
\* continuing the one delivered before it), through any updates and
\* pause/resume toggles, the freshness threshold never decreases, and it
\* changes only on a pass that runs unpaused, never on one received while
\* paused.
C13_ThresholdMonotone ==
  [][/\ state'.lastTimestamp >= state.lastTimestamp
     /\ state'.lastTimestamp # state.lastTimestamp
          => (RenderPass \/ UpdatePass) /\ ~props'.isPaused]_vars

\* C13 witness: resumed after a pause that froze the snapshot ending at
\* 200 while the stream grew to 300; the threshold has advanced to 200.
C13_Witness ==
  /\ phase = "mounted" /\ ~props.isPaused /\ fx.prevPaused /\ fx.op = "update"
  /\ state.logsResultToRender = LogsModel(<<LogRow(100), LogRow(200), LogRow(300)>>)
  /\ state.lastTimestamp = 200

\* C14: Freshness classification. Every painted row carries the fresh
\* class exactly when its timestamp is strictly greater than the freshness
\* threshold of the state it was rendered from, and the old class
\* otherwise; a row whose timestamp equals the threshold is old.
C14_FreshIffStrictlyNewer ==
  phase = "mounted" =>
    /\ Len(rowClasses) = Len(renderedRows)
    /\ \A i \in 1..Len(renderedRows) :
         /\ rowClasses[i] \in {"logsRowFresh", "logsRowOld"}
         /\ rowClasses[i] = "logsRowFresh"
              <=> renderedRows[i].timeEpochMs > state.lastTimestamp

\* C14 witness: the threshold is 100 and both rows at 100 are painted old,
\* the second of them new since the snapshot before.
C14_Witness ==
  /\ phase = "mounted" /\ ~props.isPaused /\ fx.op = "update"
  /\ state.lastTimestamp = 100
  /\ renderedRows = <<LogRow(100), LogRow(100)>>
  /\ rowClasses = <<"logsRowOld", "logsRowOld">>

\* C15: On the pass that resumes, the threshold becomes the last-row
\* timestamp of the snapshot that was frozen during the pause (the last
\* result accepted before it), whatever was delivered meanwhile, so every
\* row painted by that pass with a later timestamp is painted fresh.
C15_ResumeThreshold ==
  [][LeavingPause
       => /\ state.logsResultToRender = lastAccepted
          /\ state'.lastTimestamp = LastRowTime(state.logsResultToRender)
          /\ \A i \in 1..Len(renderedRows') :
               renderedRows'[i].timeEpochMs > LastRowTime(state.logsResultToRender)
                 => rowClasses'[i] = "logsRowFresh"]_vars

\* C15 witness: the snapshot ending at 100 was frozen; the resume paints
\* the rows at 200 and 300 fresh and the row at 100 old.
C15_Witness ==
  /\ phase = "mounted" /\ ~props.isPaused /\ fx.prevPaused /\ fx.op = "update"
  /\ state.lastTimestamp = 100
  /\ renderedRows = <<LogRow(100), LogRow(200), LogRow(300)>>
  /\ rowClasses = <<"logsRowOld", "logsRowFresh", "logsRowFresh">>

\* The window between a qualifying scroll and the pass that pauses.
InScrollWindow == phase = "mounted" /\ ~props.isPaused /\ lastScrollPos # Null

\* C16: Between a qualifying scroll and the pass on which isPaused becomes
\* true, update passes are still accepted and each render scrolls to the
\* end; the saved offset is kept by every step but a later qualifying
\* scroll, which overwrites it; and the pausing pass applies the offset of
\* the most recent qualifying scroll.
C16_ScrollWindow ==
  [][InScrollWindow
       => /\ lastScrollPos = scrolledTo
          /\ (UpdatePass /\ ~props'.isPaused)
               => /\ state'.logsResultToRender = props'.logsResult
                  /\ lastScrollPos' = lastScrollPos
                  /\ fx'.op = "update"
                       => /\ fx'.scrollIntoView = 1 /\ fx'.scrollTo = Null
                          /\ container'.scrollTop
                               = container'.scrollHeight - container'.clientHeight
          /\ ScrollEvent
               => LET distanceFromBottom == DistanceFromBottom(container')
                  IN  IF distanceFromBottom >= 5
                      THEN fx'.callback = "onPause" /\ lastScrollPos' = <<distanceFromBottom>>
                      ELSE fx'.callback = "none" /\ lastScrollPos' = lastScrollPos
          /\ fx'.op = "click" => lastScrollPos' = lastScrollPos
          /\ EnteringPause
               => fx'.scrollTo =
                    <<container'.scrollHeight - (scrolledTo[1] + container'.clientHeight)>>]_vars

\* C16 witness: with the offset 50 saved and isPaused still false, an
\* update pass was accepted and scrolled content taller than the viewport
\* to its end; the offset is still held.
C16_Witness ==
  /\ phase = "mounted" /\ ~props.isPaused /\ ~fx.prevPaused /\ fx.op = "update"
  /\ lastScrollPos = <<50>>
  /\ state.logsResultToRender = props.logsResult
  /\ fx.scrollIntoView = 1
  /\ container.scrollHeight > container.clientHeight
  /\ container.scrollTop = container.scrollHeight - container.clientHeight

\* C17: The derivation runs on every unpaused pass. After an unpaused
\* update pass that delivers the result the unpaused pass before it
\* delivered, the threshold is the last-row timestamp of that result, and
\* if its rows are in non-decreasing timestamp order none is painted fresh.
C17_SameResultTwice ==
  [][(UpdatePass /\ ~props.isPaused /\ ~props'.isPaused
        /\ props'.logsResult = props.logsResult)
       => /\ state'.logsResultToRender = props.logsResult
          /\ state'.lastTimestamp = LastRowTime(props.logsResult)
          /\ Sorted(props.logsResult)
               => \A i \in 1..Len(rowClasses') : rowClasses'[i] = "logsRowOld"]_vars

\* C17 witness: the result ending at 300 was delivered to two unpaused
\* passes in a row; the threshold is 300 and its three rows are old.
C17_Witness ==
  /\ phase = "mounted" /\ ~props.isPaused /\ ~fx.prevPaused /\ fx.op = "update"
  /\ props.logsResult = LogsModel(<<LogRow(100), LogRow(200), LogRow(300)>>)
  /\ state.lastTimestamp = 300
  /\ rowClasses = <<"logsRowOld", "logsRowOld", "logsRowOld">>

\* C18: Initial state. The constructor takes the snapshot from the first
\* logsResult and the threshold 0. The first pass runs the derivation
\* before it renders: mounted unpaused, the threshold is the initial
\* result's last-row timestamp (no row fresh when the rows are ordered)
\* and the last 100 rows are painted; mounted paused, the initial result is
\* painted in full with threshold 0, a row fresh exactly when its
\* timestamp is positive, and every step that leaves the view paused keeps
\* that rendering.
C18_InitialState ==
  [][/\ phase = "constructed"
          => state.logsResultToRender = props.logsResult /\ state.lastTimestamp = 0
     /\ (fx'.op = "mount" /\ ~props'.isPaused)
          => /\ state'.logsResultToRender = props.logsResult
             /\ state'.lastTimestamp = LastRowTime(props.logsResult)
             /\ Len(renderedRows') = Min(100, Len(RowsOf(props.logsResult)))
             /\ Sorted(props.logsResult)
                  => \A i \in 1..Len(rowClasses') : rowClasses'[i] = "logsRowOld"
     /\ (fx'.op = "mount" /\ props'.isPaused)
          => /\ state'.logsResultToRender = props.logsResult
             /\ state'.lastTimestamp = 0
             /\ renderedRows' = RowsOf(props.logsResult)
             /\ Len(rowClasses') = Len(renderedRows')
             /\ \A i \in 1..Len(renderedRows') :
                  rowClasses'[i] = "logsRowFresh" <=> renderedRows'[i].timeEpochMs > 0
     /\ (phase = "mounted" /\ props.isPaused /\ props'.isPaused)
          => state' = state /\ renderedRows' = renderedRows /\ rowClasses' = rowClasses]_vars

\* C18 witness: mounted paused with 101 rows: all are painted, the first
\* of them fresh, under threshold 0.
C18_Witness ==
  /\ phase = "mounted" /\ fx.op = "mount" /\ props.isPaused
  /\ state.lastTimestamp = 0
  /\ Len(renderedRows) = 101
  /\ rowClasses[1] = "logsRowFresh"

\* C19: Callback discipline. onPause is invoked only while the isPaused
\* the component observes is false, by a scroll event at 5 pixels or more
\* from the bottom or by a click on the toggle button; onResume only by a
\* click on the toggle button while isPaused is true; a click invokes one
\* of the two accordingly; and no scroll event or click changes the props:
\* isPaused changes only on a pass of the parent. (That onPause may be
\* invoked again before the parent's change arrives is the witness.)
C19_CallbackDiscipline ==
  [][/\ fx'.callback = "onPause"
          => /\ ~props.isPaused
             /\ \/ fx'.op = "scroll" /\ DistanceFromBottom(container') >= 5
                \/ fx'.op = "click"
     /\ fx'.callback = "onResume" => props.isPaused /\ fx'.op = "click"
     /\ fx'.callback \in {"none", "onPause", "onResume"}
     /\ fx'.op = "click"
          => fx'.callback = IF props.isPaused THEN "onResume" ELSE "onPause"
     /\ fx'.op \in {"scroll", "click"} => props' = props
     /\ props'.isPaused # props.isPaused => UpdatePass]_vars

\* C19 witness: a qualifying scroll invoked onPause while isPaused was
\* still false after an earlier call of onPause.
C19_Witness ==
  /\ phase = "mounted" /\ ~props.isPaused
  /\ fx.op = "scroll" /\ fx.callback = "onPause"
  /\ pauseRequests = 2

====
